---- MODULE Spec2Model ----
(***************************************************************************)
(* State machine of RLM_REPL (src/rlm/rlm_repl.py): the driver loop of     *)
(* completion(), its pause for external tool calls, the resume with        *)
(* tool_results, the forced finalization and reset(), together with the    *)
(* Model Client wrapper OpenAIClient.completion (src/rlm/utils/llm.py).    *)
(*                                                                         *)
(* One call of completion() is modelled step by step: the step that enters *)
(* the call (CallNew / Resume), one step per pass of the for loop          *)
(* (Iterate) and the step after the loop (Finalize).  The driving model's  *)
(* answer to each request is an input drawn from RawResponses.             *)
(*                                                                         *)
(* Spec drives the RLM_REPL object directly; SpecFair adds the fairness of *)
(* a running call; SpecAPI drives the same object through                  *)
(* RLMToolCallingAPI.chat_completion (src/rlm/rlm_api.py), as the HTTP     *)
(* server (src/rlm_server.py) does for the callers that name one model.    *)
(***************************************************************************)
EXTENDS Integers, Sequences, FiniteSets, TLC

\* ------------------------------------------------------------------ bounds
\* largest configured max_iterations explored (0..MaxIter)
MaxIter == 2
\* number of operations (completion calls and resets) made on the object
MaxOps == 2
\* Model Client requests issued in the run: a call is entered only while the
\* requests it can issue (max_iterations + 1) still fit, so that a call that
\* was entered always runs to its end
MaxRequests == 5
\* number of chat_completion calls made on the RLMToolCallingAPI object
MaxChats == 3
\* number of clients the server's cache holds
MaxClients == 3
\* longest message list handed to _extract_context on its own
MaxMsgs == 3
\* sub-queries the code of one fence makes
MaxSubQueries == 2

\* ------------------------------------------------------------ value spaces
None == "None"
DEFAULT_QUERY == "DEFAULT_QUERY"
\* the loop variable `iteration` before the for loop has bound it
Unbound == 0 - 1

Contexts == {"ctx"}
Queries == {None, "q"}
ToolSchemas == {None, "tools"}

\* the tool_results lists a caller can supply on a resume: for the batch
\* <<"t1">> a matching, a missing, a misattributed and an extra entry
ToolResultLists == {<<>>, <<"t1">>, <<"t2">>, <<"t1", "t2">>}

\* one answer of the driving model: the request failed, or the message
\* carries tool calls, a code fence (that runs or that raises) and a
\* final-answer marker
Raw(fail, tool_calls, code, final) ==
    [fail |-> fail, tool_calls |-> tool_calls, code |-> code, final |-> final]

\* no answer yet
NoResponse == Raw(FALSE, <<>>, "none", FALSE)

\* what the driving model sends back for one request: a failure, every
\* answer without tool calls, and tool calls alone, beside a code fence and
\* beside a final-answer marker
RawResponses ==
    {Raw(TRUE, <<>>, "none", FALSE)}
    \cup {Raw(FALSE, <<>>, code, final) :
             code \in {"none", "ok", "raises"}, final \in BOOLEAN}
    \cup {Raw(FALSE, <<"t1">>, "none", FALSE),
          Raw(FALSE, <<"t1">>, "ok", FALSE),
          Raw(FALSE, <<"t1", "t2">>, "none", TRUE)}

\* what it sends back for the request made after the loop: a failure, plain
\* text, and a message with tool calls, a code fence and a final-answer marker
FinalResponses ==
    {Raw(TRUE, <<>>, "none", FALSE),
     Raw(FALSE, <<>>, "none", FALSE),
     Raw(FALSE, <<"t1">>, "ok", TRUE)}

\* --------------------------------------------------------------- messages
Msg(role, kind, ids, q, it) ==
    [role |-> role, kind |-> kind, ids |-> ids, query |-> q, iteration |-> it]

\* one tool-result entry per supplied identifier
ToolResultMsg(id) == Msg("tool", "tool_result", <<id>>, None, Unbound)

RECURSIVE ToolResultMsgs(_)
ToolResultMsgs(ids) ==
    IF ids = <<>> THEN <<>>
    ELSE <<ToolResultMsg(Head(ids))>> \o ToolResultMsgs(Tail(ids))

\* rlm.utils.prompts.build_system_prompt
build_system_prompt == <<Msg("system", "system_prompt", <<>>, None, Unbound)>>

\* rlm.utils.prompts.next_action_prompt(query, iteration, final_answer)
next_action_prompt(q, it, final_answer) ==
    Msg("user", IF final_answer THEN "final_prompt" ELSE "next_action", <<>>, q, it)

\* rlm.utils.utils.format_tool_call_message(response)
format_tool_call_message(response) ==
    Msg("assistant", "tool_calls", response.tool_calls, None, Unbound)

\* the assistant message of a turn without code (rlm_repl.py 151)
assistant_message == Msg("assistant", "text", <<>>, None, Unbound)

\* the observation rlm.utils.utils.process_code_execution appends
observation(code) ==
    Msg("user", IF code = "raises" THEN "observation_error" ELSE "observation",
        <<>>, None, Unbound)

\* --------------------------------------------------- execution environment
\* self.repl_env = None (rlm_repl.py 36)
NoneEnv == [id |-> 0, context |-> None, execs |-> 0]

\* rlm.repl.REPLEnv(...): a new object, with a namespace nothing ran in
REPLEnv(id, context) == [id |-> id, context |-> context, execs |-> 0]

\* ------------------------------------------------------------ model client
NoRequest == [messages |-> <<>>, tools |-> None, final |-> FALSE]

\* LLMCompletion with the message's tool_calls handed back whether or not a
\* tool schema was sent
LLMCompletionFullMessage(raw, tools) == raw

\* OpenAIClient.completion: with a tool schema the answer is a dict carrying
\* the message's tool_calls, without one it is the message content alone
LLMCompletion(raw, tools) ==
    IF tools # None THEN raw ELSE [raw EXCEPT !.tool_calls = <<>>]

\* rlm.utils.utils.has_tool_calls(response)
has_tool_calls(response) == response.tool_calls # <<>>

\* rlm.utils.utils.find_code_blocks(response_text) is not None
has_code_blocks(response) == response.code # "none"

\* rlm.utils.utils.check_for_final_answer(response_text, repl_env, logger)
check_for_final_answer(response) == response.final

\* -------------------------------------------------------------- sub-queries
\* self.model and self.recursive_model (rlm_repl.py 31-32)
DrivingModel == "model"
RecursiveModel == "recursive_model"

\* the model the Execution Environment is given for its sub-queries:
\* REPLEnv(..., recursive_model=self.recursive_model) (rlm_repl.py 68-72)
EnvModel == RecursiveModel

\* no fence was executed
NoSubQueries ==
    [queries |-> 0, requests |-> 0, model |-> None, tools |-> None,
     loops |-> 0, pauses |-> 0]

\* SubQueries with every sub-query run as a nested driver loop that uses its
\* whole budget
SubQueriesNested(n, model, budget) ==
    [queries |-> n, requests |-> n * (budget + 1), model |-> model,
     tools |-> None, loops |-> n, pauses |-> 0]

\* what the n sub-queries of one executed fence do (rlm.repl.REPLEnv): each
\* is one request to the environment's model, without a tool schema, whose
\* text is bound in the namespace; none runs a driver loop or pauses
SubQueries(n, model, budget) ==
    [queries |-> n, requests |-> n, model |-> model, tools |-> None,
     loops |-> 0, pauses |-> 0]

\* --------------------------------------------------------------- results
NoResult == [type |-> "none", tool_calls |-> <<>>, iteration |-> Unbound, error |-> None]
\* Paused with the iteration counted from one
PausedOneBased(tool_calls, it) ==
    [type |-> "tool_calls", tool_calls |-> tool_calls, iteration |-> it + 1,
     error |-> None]
\* Paused with only the first tool call handed to the caller
PausedFirstOnly(tool_calls, it) ==
    [type |-> "tool_calls", tool_calls |-> <<Head(tool_calls)>>, iteration |-> it,
     error |-> None]
\* the dict returned when the response holds tool calls (rlm_repl.py 129-135)
Paused(tool_calls, it) ==
    [type |-> "tool_calls", tool_calls |-> tool_calls, iteration |-> it, error |-> None]
FinalAnswer == [type |-> "answer", tool_calls |-> <<>>, iteration |-> Unbound, error |-> None]
Raised(e) == [type |-> "error", tool_calls |-> <<>>, iteration |-> Unbound, error |-> e]

\* ------------------------------------------------------------------ state
VARIABLES
    max_iterations,  \* self._max_iterations
    messages,        \* self.messages
    repl_env,        \* self.repl_env
    query,           \* self.query
    envCount,        \* number of REPLEnv objects constructed so far
    pc,              \* "idle": no call running; "loop": inside completion
    arg_query,       \* completion's parameter query
    arg_tools,       \* completion's parameter tools
    tool_results,    \* completion's parameter tool_results
    iteration,       \* completion's loop variable
    result,          \* what the last call of completion returned or raised
    lastRequest,     \* the last request handed to self.llm.completion
    response,        \* what self.llm.completion returned for it
    reqCall,         \* Model Client requests issued by the running/last call
    reqSession,      \* Model Client requests issued since the session began
    reqTotal,        \* Model Client requests issued in the run
    session,         \* TRUE once setup_context ran, FALSE again after reset
    setups,          \* number of times setup_context ran
    batch,           \* the paused result the caller held when the call began
    ops,             \* operations made so far
    current_context,        \* RLMToolCallingAPI.current_context
    current_query,          \* RLMToolCallingAPI.current_query
    current_tools,          \* RLMToolCallingAPI.current_tools
    conversation_messages,  \* RLMToolCallingAPI.conversation_messages
    chat_messages,   \* chat_completion's parameter messages
    chat_response,   \* what the last chat_completion returned or raised
    caller,          \* the caller whose chat_completion is running or ran last
    callers,         \* what each caller of the API holds: its message history
    rlm_clients,     \* rlm_server.rlm_clients: the clients created, by cache key
    client,          \* the last get_rlm_client call: its model, the client returned
    http,            \* what create_chat_completion answered to the last request
    extract_messages,  \* the messages last handed to _extract_context on its own
    extracted,       \* what it returned for them, by the type of the value
    query_messages,  \* the messages last handed to _extract_query on its own
    extracted_query, \* what it returned for them
    sub              \* the sub-queries of the fence executed last

\* the state of the RLMToolCallingAPI object and of its callers
apiVars == <<current_context, current_query, current_tools, conversation_messages,
             chat_messages, chat_response, caller, callers>>

\* the state of the server: its client cache and its last answer
serverVars == <<rlm_clients, client, http>>

\* the argument and the value of _extract_context applied on its own
extractVars == <<extract_messages, extracted>>

\* the argument and the value of _extract_query applied on its own
queryVars == <<query_messages, extracted_query>>

\* everything outside the RLM_REPL object
outerVars == <<apiVars, serverVars, extractVars, queryVars, sub>>

vars == <<max_iterations, messages, repl_env, query, envCount, pc, arg_query,
          arg_tools, tool_results, iteration, result, lastRequest, response,
          reqCall, reqSession, reqTotal, session, setups, batch, ops,
          current_context, current_query, current_tools, conversation_messages,
          chat_messages, chat_response, caller, callers,
          rlm_clients, client, http, extract_messages, extracted,
          query_messages, extracted_query, sub>>

\* tool_results is None
NoToolResults == [given |-> FALSE, entries |-> <<>>]
GivenToolResults(ids) == [given |-> TRUE, entries |-> ids]

\* the callers of the API object
Callers == {"A", "B"}

\* no chat_completion has returned yet
NoChatResponse == [finish_reason |-> None, content |-> None, tool_calls |-> <<>>]

\* a caller that has sent nothing yet
NewCaller == [status |-> "new", history |-> <<>>, tools |-> None]

\* RLM_REPL.__init__ and RLMToolCallingAPI.__init__
Init ==
    /\ max_iterations \in 0..MaxIter
    /\ messages = <<>>
    /\ repl_env = NoneEnv
    /\ query = None
    /\ envCount = 0
    /\ pc = "idle"
    /\ arg_query = None
    /\ arg_tools = None
    /\ tool_results = NoToolResults
    /\ iteration = Unbound
    /\ result = NoResult
    /\ lastRequest = NoRequest
    /\ response = NoResponse
    /\ reqCall = 0
    /\ reqSession = 0
    /\ reqTotal = 0
    /\ session = FALSE
    /\ setups = 0
    /\ batch = NoResult
    /\ ops = 0
    /\ current_context = None
    /\ current_query = None
    /\ current_tools = None
    /\ conversation_messages = <<>>
    /\ chat_messages = <<>>
    /\ chat_response = NoChatResponse
    /\ caller = None
    /\ callers = [c \in Callers |-> NewCaller]
    /\ rlm_clients = {}
    /\ client = [model |-> <<>>, id |-> 0]
    /\ http = [status |-> "none", detail |-> None, raised |-> None]
    /\ extract_messages = <<>>
    /\ extracted = [done |-> FALSE, type |-> None, str |-> None,
                    strs |-> <<>>, msgs |-> <<>>]
    /\ query_messages = <<>>
    /\ extracted_query = [done |-> FALSE, value |-> None]
    /\ sub = NoSubQueries

\* the Pending Tool-Call Batch: the paused result the caller holds
\* (rlm_repl.py 130-136), if the last call paused
Pending == IF result.type = "tool_calls" THEN result ELSE NoResult

\* the supplied entries answer the batch one to one
Matches(ids, calls) ==
    /\ Len(ids) = Len(calls)
    /\ \A i \in 1..Len(ids) : \E j \in 1..Len(calls) : ids[i] = calls[j]
    /\ \A j \in 1..Len(calls) : \E i \in 1..Len(ids) : ids[i] = calls[j]

\* RLM_REPL.setup_context: the query recorded for the session
SetupQuery(q) == IF q = None THEN DEFAULT_QUERY ELSE q

\* NewEnv with the object of the earlier session kept and handed the new
\* context
NewEnvReused(context) ==
    IF repl_env = NoneEnv THEN REPLEnv(envCount + 1, context)
    ELSE [repl_env EXCEPT !.context = context]

\* RLM_REPL.setup_context: self.repl_env = REPLEnv(...), a new object at
\* every run (rlm_repl.py 68-72)
NewEnv(context) == REPLEnv(envCount + 1, context)

\* completion entered without tool_results: setup_context builds the session
\* (rlm_repl.py 102-104)
StartSession(context, q, tools) ==
    /\ pc = "idle"
    /\ reqTotal + max_iterations + 1 <= MaxRequests
    /\ query' = SetupQuery(q)
    /\ messages' = build_system_prompt
    /\ repl_env' = NewEnv(context)
    /\ envCount' = envCount + 1
    /\ setups' = setups + 1
    /\ session' = TRUE
    /\ arg_query' = q
    /\ arg_tools' = tools
    /\ tool_results' = NoToolResults
    /\ batch' = NoResult
    /\ iteration' = Unbound
    /\ result' = NoResult
    /\ lastRequest' = NoRequest
    /\ response' = NoResponse
    /\ reqCall' = 0
    /\ reqSession' = 0
    /\ pc' = "loop"
    /\ ops' = ops + 1
    /\ UNCHANGED <<max_iterations, reqTotal>>

\* completion(context, query, tools) called on the RLM_REPL object
CallNew(context, q, tools) ==
    /\ ops < MaxOps
    /\ StartSession(context, q, tools)

\* the tool-call identifiers the entries of a tool_results list answer
RECURSIVE EntryIds(_)
EntryIds(entries) ==
    IF entries = <<>> THEN <<>>
    ELSE (IF Head(entries).role = "tool" THEN Head(entries).ids ELSE <<>>)
         \o EntryIds(Tail(entries))

\* Extended with the Conversation replaced by the entries
ExtendedReplacing(msgs, entries) == entries

\* self.messages.extend(tool_results) (rlm_repl.py 107)
Extended(msgs, entries) == msgs \o entries

\* completion entered with tool_results: they are appended to self.messages
\* (rlm_repl.py 105-107)
ContinueSession(q, tools, entries) ==
    /\ pc = "idle"
    /\ reqTotal + max_iterations + 1 <= MaxRequests
    /\ messages' = Extended(messages, entries)
    /\ arg_query' = q
    /\ arg_tools' = tools
    /\ tool_results' = GivenToolResults(EntryIds(entries))
    /\ batch' = Pending
    /\ iteration' = Unbound
    /\ result' = NoResult
    /\ lastRequest' = NoRequest
    /\ response' = NoResponse
    /\ reqCall' = 0
    /\ pc' = "loop"
    /\ ops' = ops + 1
    /\ UNCHANGED <<max_iterations, repl_env, query, envCount, setups, session,
                   reqSession, reqTotal>>

\* Resume with setup_context run again, as for a new execution
ResumeWithSetup(q, tools, ids) ==
    /\ pc = "idle"
    /\ ops < MaxOps
    /\ reqTotal + max_iterations + 1 <= MaxRequests
    /\ query' = SetupQuery(q)
    /\ messages' = build_system_prompt \o ToolResultMsgs(ids)
    /\ repl_env' = REPLEnv(envCount + 1, repl_env.context)
    /\ envCount' = envCount + 1
    /\ setups' = setups + 1
    /\ arg_query' = q
    /\ arg_tools' = tools
    /\ tool_results' = GivenToolResults(ids)
    /\ batch' = Pending
    /\ iteration' = Unbound
    /\ result' = NoResult
    /\ lastRequest' = NoRequest
    /\ response' = NoResponse
    /\ reqCall' = 0
    /\ pc' = "loop"
    /\ ops' = ops + 1
    /\ UNCHANGED <<max_iterations, session, reqSession, reqTotal>>

\* completion(context, query, tools, tool_results) called on the RLM_REPL
\* object, with one tool-result entry per identifier in ids
Resume(q, tools, ids) ==
    /\ ops < MaxOps
    /\ ContinueSession(q, tools, ToolResultMsgs(ids))

\* NextIteration with the loop variable never advancing past its first value
NextIterationStuck == IF iteration = Unbound THEN 0 ELSE iteration

\* the value range(self._max_iterations) hands to the loop next
NextIteration == IF iteration = Unbound THEN 0 ELSE iteration + 1

\* Classify with the final-answer marker looked at before the tool calls: the
\* response is recorded as a plain turn and its final answer returned
ClassifyFinalFirst(r) ==
    IF check_for_final_answer(r) /\ ~has_code_blocks(r) THEN "text"
    ELSE IF has_tool_calls(r) THEN "tool_calls"
    ELSE IF has_code_blocks(r) THEN "code"
    ELSE "text"

\* Classify with the code fences looked at before the tool calls
ClassifyCodeFirst(r) ==
    IF has_code_blocks(r) THEN "code"
    ELSE IF has_tool_calls(r) THEN "tool_calls"
    ELSE "text"

\* the branch of the loop body a response takes (rlm_repl.py 118-152)
Classify(r) ==
    IF has_tool_calls(r) THEN "tool_calls"
    ELSE IF has_code_blocks(r) THEN "code"
    ELSE "text"

\* rlm.utils.utils.process_code_execution on the environment: a fence that
\* raises leaves an observation, nothing is raised to the caller
ExecuteIn(env, code) ==
    IF env = NoneEnv THEN env ELSE [env EXCEPT !.execs = env.execs + 1]

\* AfterTurn with the failure of an executed fence raised to the caller
AfterTurnRaising(r) ==
    IF r.code = "raises"
    THEN [pc |-> "idle", result |-> Raised("ExecutionError")]
    ELSE IF check_for_final_answer(r)
    THEN [pc |-> "idle", result |-> FinalAnswer]
    ELSE [pc |-> "loop", result |-> NoResult]

\* AfterTurn with the final answer of the turn ignored and the loop going on
AfterTurnNoReturn(r) == [pc |-> "loop", result |-> NoResult]

\* how one pass of the loop ends once the turn was recorded
\* (rlm_repl.py 154-162): with the final answer, or in the loop
AfterTurn(r) ==
    IF check_for_final_answer(r)
    THEN [pc |-> "idle", result |-> FinalAnswer]
    ELSE [pc |-> "loop", result |-> NoResult]

\* RequestFailed with the failure swallowed and the loop going on to its
\* next pass
RequestFailedRetried == [pc |-> "loop", result |-> NoResult]

\* a failed Model Client request: OpenAIClient.completion raises RuntimeError
\* (llm.py 75-76) and completion has no handler around the request
\* (rlm_repl.py 113-116), so the call ends with that error
RequestFailed == [pc |-> "idle", result |-> Raised("RuntimeError")]

\* RequestMessages composed from the Conversation as it stood before the
\* last turn was recorded
RequestMessagesStale(msgs, prompt) ==
    Append(SubSeq(msgs, 1, Len(msgs) - 1), prompt)

\* RequestMessages with the instruction put before the Conversation
RequestMessagesPromptFirst(msgs, prompt) == <<prompt>> \o msgs

\* the messages of a request of the loop: self.messages + [next_action_prompt]
\* (rlm_repl.py 113-114), read when the request is made
RequestMessages(msgs, prompt) == Append(msgs, prompt)

\* one pass of the for loop of completion
Iterate(raw) ==
    /\ pc = "loop"
    /\ NextIteration < max_iterations
    /\ iteration' = NextIteration
    /\ lastRequest' = [messages |-> RequestMessages(messages,
                            next_action_prompt(arg_query, NextIteration, FALSE)),
                       tools |-> arg_tools, final |-> FALSE]
    /\ reqCall' = reqCall + 1
    /\ reqSession' = reqSession + 1
    /\ reqTotal' = reqTotal + 1
    /\ response' = LLMCompletion(raw, arg_tools)
    /\ LET kind == Classify(response')
       IN IF raw.fail
          THEN /\ result' = RequestFailed.result
               /\ pc' = RequestFailed.pc
               /\ UNCHANGED <<messages, repl_env>>
          ELSE CASE kind = "tool_calls" ->
                      /\ messages' = Append(messages, format_tool_call_message(response'))
                      /\ result' = Paused(response'.tool_calls, NextIteration)
                      /\ pc' = "idle"
                      /\ UNCHANGED repl_env
                 [] kind = "code" ->
                      /\ messages' = Append(messages, observation(response'.code))
                      /\ repl_env' = ExecuteIn(repl_env, response'.code)
                      /\ pc' = AfterTurn(response').pc
                      /\ result' = AfterTurn(response').result
                 [] OTHER ->
                      /\ messages' = Append(messages, assistant_message)
                      /\ pc' = AfterTurn(response').pc
                      /\ result' = AfterTurn(response').result
                      /\ UNCHANGED repl_env
    /\ UNCHANGED <<max_iterations, query, envCount, arg_query, arg_tools,
                   tool_results, session, setups, batch, ops>>

\* FinalTools with the call's tool schema passed on
FinalToolsPassed(tools) == tools

\* the tool schema of the request made after the loop (rlm_repl.py 168)
FinalTools(tools) == None

\* after a loop of no pass (max_iterations = 0): line 167 reads the loop
\* variable `iteration`, which range(0) never bound
FinalizeUnbound ==
    /\ pc = "loop"
    /\ NextIteration >= max_iterations
    /\ iteration = Unbound
    /\ result' = Raised("UnboundLocalError")
    /\ pc' = "idle"
    /\ UNCHANGED <<max_iterations, messages, repl_env, query, envCount, arg_query,
                   arg_tools, tool_results, iteration, lastRequest, response,
                   reqCall, reqSession, reqTotal, session, setups, batch, ops>>

\* after the loop: the forced finalization (rlm_repl.py 165-172)
Finalize(raw) ==
    /\ pc = "loop"
    /\ NextIteration >= max_iterations
    /\ iteration # Unbound
    /\ messages' = Append(messages, next_action_prompt(arg_query, iteration, TRUE))
    /\ lastRequest' = [messages |-> messages', tools |-> FinalTools(arg_tools),
                       final |-> TRUE]
    /\ reqCall' = reqCall + 1
    /\ reqSession' = reqSession + 1
    /\ reqTotal' = reqTotal + 1
    /\ response' = LLMCompletion(raw, FinalTools(arg_tools))
    /\ result' = IF raw.fail THEN RequestFailed.result ELSE FinalAnswer
    /\ pc' = "idle"
    /\ UNCHANGED <<max_iterations, repl_env, query, envCount, arg_query, arg_tools,
                   tool_results, iteration, session, setups, batch, ops>>

\* RLM_REPL.reset (rlm_repl.py 178-182); no call is the last call any more
ResetSession ==
    /\ pc = "idle"
    /\ repl_env' = REPLEnv(envCount + 1, None)
    /\ envCount' = envCount + 1
    /\ messages' = <<>>
    /\ query' = None
    /\ session' = FALSE
    /\ result' = NoResult
    /\ tool_results' = NoToolResults
    /\ batch' = NoResult
    /\ iteration' = Unbound
    /\ lastRequest' = NoRequest
    /\ response' = NoResponse
    /\ reqCall' = 0
    /\ reqSession' = 0
    /\ ops' = ops + 1
    /\ UNCHANGED <<max_iterations, pc, arg_query, arg_tools, reqTotal, setups>>

\* reset() called on the RLM_REPL object
Reset ==
    /\ ops < MaxOps
    /\ ResetSession

\* the query and the tools the repository's resuming caller passes
\* (rlm_api.py 103-108): the ones it stored from the call that began the
\* session, None before any such call and after a reset
StoredQuery == IF session THEN arg_query ELSE None
StoredTools == IF session THEN arg_tools ELSE None

\* the operations of the RLM_REPL object, called on it directly
Next ==
    \/ \E context \in Contexts, q \in Queries, tools \in ToolSchemas :
          CallNew(context, q, tools) /\ UNCHANGED outerVars
    \/ \E ids \in ToolResultLists :
          Resume(StoredQuery, StoredTools, ids) /\ UNCHANGED outerVars
    \/ \E raw \in RawResponses : Iterate(raw) /\ UNCHANGED outerVars
    \/ FinalizeUnbound /\ UNCHANGED outerVars
    \/ \E raw \in FinalResponses : Finalize(raw) /\ UNCHANGED outerVars
    \/ Reset /\ UNCHANGED outerVars

Spec == Init /\ [][Next]_vars

\* completion runs in one thread, from its entry to its return or raise: once
\* a call is inside completion, its next step is taken, provided every Model
\* Client request returns or fails and every executed fence returns
SpecFair ==
    /\ Spec
    /\ WF_vars(\E raw \in RawResponses : Iterate(raw) /\ UNCHANGED outerVars)
    /\ WF_vars(FinalizeUnbound /\ UNCHANGED outerVars)
    /\ WF_vars(\E raw \in FinalResponses : Finalize(raw) /\ UNCHANGED outerVars)

\* ============================================================ sub-queries
\* the fence of the turn just taken, if it has one, makes n sub-queries while
\* it runs (rlm_repl.py 145-148)
ExecuteSubQueries(n) ==
    sub' = IF ~response'.fail /\ Classify(response') = "code"
           THEN SubQueries(n, EnvModel, max_iterations)
           ELSE NoSubQueries

\* completion with fences that make sub-queries
NextSub ==
    \/ \E context \in Contexts, q \in Queries, tools \in ToolSchemas :
          CallNew(context, q, tools)
          /\ UNCHANGED <<apiVars, serverVars, extractVars, queryVars, sub>>
    \/ \E raw \in RawResponses, n \in 0..MaxSubQueries :
          Iterate(raw) /\ ExecuteSubQueries(n)
          /\ UNCHANGED <<apiVars, serverVars, extractVars, queryVars>>
    \/ FinalizeUnbound /\ UNCHANGED outerVars
    \/ \E raw \in FinalResponses : Finalize(raw) /\ UNCHANGED outerVars

SpecSub == Init /\ [][NextSub]_vars

\* ================================================== RLMToolCallingAPI
\* The OpenAI-compatible layer (src/rlm/rlm_api.py) over the same RLM_REPL
\* object, as the HTTP server (src/rlm_server.py) and the examples drive it:
\* each caller sends its message history to chat_completion, which starts a
\* session or continues the stored one; the loop of completion then runs as
\* above and its result is formatted as the chat response.

\* a message of the OpenAI format as a caller sends it; its content travels
\* in the field `query`
CallerMsg(role, content, ids) == Msg(role, "caller", ids, content, Unbound)
Content(m) == m.query

\* the conversations a caller can open (example_tool_calling.py 172-175): a
\* system message with the context and the user's question, for B also with
\* an earlier user message before the question
Conversations(c) ==
    IF c = "A"
    THEN {<<CallerMsg("system", "ctxA", <<>>), CallerMsg("user", "qA", <<>>)>>}
    ELSE {<<CallerMsg("system", "ctxB", <<>>), CallerMsg("user", "qB", <<>>)>>,
          <<CallerMsg("system", "ctxB", <<>>), CallerMsg("user", "hB", <<>>),
            CallerMsg("user", "qB", <<>>)>>}

\* A model name is the sequence of its parts: names of models and the
\* separator ":".
ModelParts == {"gpt-5", "gpt-5-mini", "gpt-4o"}
\* the parts in which "nano" or "mini" occurs
SmallParts == {"gpt-5-mini"}

\* the model names sent to the server: a model alone, and a model, the
\* separator and a recursive model
ModelNames ==
    {<<b>> : b \in ModelParts}
    \cup {<<b, ":", r>> : b \in ModelParts, r \in ModelParts}

\* the model a caller names in its requests to the server: "gpt-5-mini" and
\* "gpt-5-mini:gpt-4o"
RequestedModel(c) ==
    IF c = "A" THEN <<"gpt-5-mini">> ELSE <<"gpt-5-mini", ":", "gpt-4o">>

\* ":" in model
HasSeparator(model) == \E i \in 1..Len(model) : model[i] = ":"

\* where model.split(":", 1) splits
FirstSeparator(model) ==
    CHOOSE i \in 1..Len(model) :
        model[i] = ":" /\ \A j \in 1..(i - 1) : model[j] # ":"

\* "nano" in model or "mini" in model
IsSmall(model) == \E i \in 1..Len(model) : model[i] \in SmallParts

\* the base model get_rlm_client resolves a name to (rlm_server.py 108-111)
base_model(model) ==
    IF HasSeparator(model) THEN SubSeq(model, 1, FirstSeparator(model) - 1)
    ELSE model

\* DefaultRecursive with the name itself taken for every model
DefaultRecursiveSame(model) == model

\* the default mapping of a name without separator (rlm_server.py 112-115)
DefaultRecursive(model) == IF IsSmall(model) THEN <<"gpt-4o">> ELSE model

\* the recursive model get_rlm_client resolves a name to
\* (rlm_server.py 108-115)
recursive_model(model) ==
    IF HasSeparator(model)
    THEN SubSeq(model, FirstSeparator(model) + 1, Len(model))
    ELSE DefaultRecursive(model)

\* cache_key = f"{base_model}:{recursive_model}" (rlm_server.py 117)
cache_key(model) == base_model(model) \o <<":">> \o recursive_model(model)

\* the keys the cache holds
CachedKeys == {e.key : e \in rlm_clients}

\* rlm_clients[key]
ClientOf(key) == (CHOOSE e \in rlm_clients : e.key = key).id

\* rlm_server.get_rlm_client(model): the client kept under the key is
\* returned, and created first if the cache has none
get_rlm_client(model) ==
    LET key == cache_key(model)
    IN IF key \in CachedKeys
       THEN /\ client' = [model |-> model, id |-> ClientOf(key)]
            /\ UNCHANGED rlm_clients
       ELSE /\ Cardinality(rlm_clients) < MaxClients
            /\ rlm_clients' = rlm_clients
                   \cup {[key |-> key, id |-> Cardinality(rlm_clients) + 1]}
            /\ client' = [model |-> model, id |-> Cardinality(rlm_clients) + 1]

\* the cache entry whose client (an RLMToolCallingAPI with its RLM_REPL) the
\* state above describes
ServedClient == <<"gpt-5-mini", ":", "gpt-4o">>

IsSystem(m) == m.role = "system"
IsUser(m) == m.role = "user"
IsTool(m) == m.role = "tool"

\* [m['content'] for m in msgs]
RECURSIVE Contents(_)
Contents(msgs) ==
    IF msgs = <<>> THEN <<>>
    ELSE <<Content(Head(msgs))>> \o Contents(Tail(msgs))

\* RLMToolCallingAPI._extract_context
extract_context(msgs) ==
    LET system_messages == SelectSeq(msgs, IsSystem)
    IN IF system_messages # <<>>
       THEN IF Len(system_messages) = 1 THEN Content(system_messages[1])
            ELSE Contents(system_messages)
       ELSE IF Len(msgs) > 1 THEN SubSeq(msgs, 1, Len(msgs) - 1)
       ELSE ""

\* the type of the value _extract_context returns: a str, a list of str, or a
\* list of messages
context_type(msgs) ==
    LET system_messages == SelectSeq(msgs, IsSystem)
    IN IF system_messages # <<>>
       THEN IF Len(system_messages) = 1 THEN "str" ELSE "list of str"
       ELSE IF Len(msgs) > 1 THEN "list of messages"
       ELSE "str"

\* _extract_query with the first user message taken instead of the last
extract_query_first_user(msgs) ==
    LET users == SelectSeq(msgs, IsUser)
    IN IF users # <<>> THEN Content(users[1])
       ELSE IF msgs # <<>> THEN Content(msgs[Len(msgs)])
       ELSE ""

\* RLMToolCallingAPI._extract_query
extract_query(msgs) ==
    LET users == SelectSeq(msgs, IsUser)
    IN IF users # <<>> THEN Content(users[Len(users)])
       ELSE IF msgs # <<>> THEN Content(msgs[Len(msgs)])
       ELSE ""

\* RLMToolCallingAPI._has_tool_results
has_tool_results(msgs) ==
    LET has_tool_role == \E i \in 1..Len(msgs) : msgs[i].role = "tool"
        has_session == current_context # None
    IN has_tool_role \/ (has_session /\ Len(msgs) > Len(conversation_messages))

\* RLMToolCallingAPI._extract_tool_results: the list it returns and the
\* conversation_messages it leaves
extract_tool_results(msgs) ==
    LET tool_messages == SelectSeq(msgs, IsTool)
    IN IF tool_messages # <<>>
       THEN [results |-> tool_messages,
             conversation_messages |-> conversation_messages]
       ELSE IF conversation_messages # <<>>
       THEN [results |-> SubSeq(msgs, Len(conversation_messages) + 1, Len(msgs)),
             conversation_messages |-> msgs]
       ELSE [results |-> <<>>, conversation_messages |-> conversation_messages]

\* ContinuationTools with the tools argument of the continuation call
ContinuationToolsFromCall(tools) == tools

\* the tools a continuation passes to completion: self.current_tools
\* (rlm_api.py 106)
ContinuationTools(tools) == current_tools

\* chat_completion entered (rlm_api.py 97-121) on the client the server
\* found for the caller's model (rlm_server.py 196, 222)
chat_completion(c, msgs, tools) ==
    /\ ops < MaxChats
    /\ cache_key(RequestedModel(c)) = ServedClient
    /\ get_rlm_client(RequestedModel(c))
    /\ UNCHANGED <<extractVars, queryVars,
                   sub>>
    /\ chat_messages' = msgs
    /\ chat_response' = NoChatResponse
    /\ caller' = c
    /\ callers' = [callers EXCEPT ![c] =
                      [status |-> "waiting", history |-> msgs, tools |-> tools]]
    /\ IF has_tool_results(msgs)
       THEN /\ ContinueSession(current_query, ContinuationTools(tools),
                               extract_tool_results(msgs).results)
            /\ conversation_messages' = extract_tool_results(msgs).conversation_messages
            /\ UNCHANGED <<current_context, current_query, current_tools>>
       ELSE /\ current_context' = extract_context(msgs)
            /\ current_query' = extract_query(msgs)
            /\ current_tools' = tools
            /\ conversation_messages' = msgs
            /\ StartSession(extract_context(msgs), extract_query(msgs), tools)

\* a caller opens a conversation (example_tool_calling.py 172-177)
CallerOpens(c, msgs, tools) ==
    /\ callers[c].status = "new"
    /\ chat_completion(c, msgs, tools)

\* a caller that was handed tool calls sends its whole history again
\* (example_tool_calling.py 180-200), with the tools of that request
\* (rlm_server.py 226)
CallerContinues(c, tools) ==
    /\ callers[c].status = "paused"
    /\ chat_completion(c, callers[c].history, tools)

\* FormatResponse with every result formatted as a final answer
FormatResponseAsStop(res) ==
    [finish_reason |-> "stop", content |-> "answer", tool_calls |-> <<>>]

\* the response chat_completion builds from the result of completion
\* (rlm_api.py 123-152)
FormatResponse(res) ==
    IF res.type = "tool_calls"
    THEN [finish_reason |-> "tool_calls", content |-> "content",
          tool_calls |-> res.tool_calls]
    ELSE [finish_reason |-> "stop", content |-> "answer", tool_calls |-> <<>>]

\* completion raised: chat_completion has no handler, the server answers
\* with status 500 (rlm_server.py 277-282)
ChatRaised == [finish_reason |-> "raised", content |-> None, tool_calls |-> <<>>]

\* what the caller does with a response (example_tool_calling.py 180-200):
\* after tool calls it appends the assistant message and one tool result per
\* call to its history; otherwise it is done
AfterResponse(st, resp) ==
    IF resp.finish_reason = "tool_calls"
    THEN [st EXCEPT !.status = "paused",
                    !.history = st.history
                                \o <<CallerMsg("assistant", None, resp.tool_calls)>>
                                \o ToolResultMsgs(resp.tool_calls)]
    ELSE [st EXCEPT !.status = "done"]

\* the end of chat_completion, when the step just taken ended completion
ChatReturn ==
    /\ chat_response' =
          IF pc' # "idle" THEN NoChatResponse
          ELSE IF result'.type = "error" THEN ChatRaised
          ELSE FormatResponse(result')
    /\ callers' = IF pc' # "idle" THEN callers
                  ELSE [callers EXCEPT ![caller] = AfterResponse(@, chat_response')]
    /\ UNCHANGED <<current_context, current_query, current_tools,
                   conversation_messages, chat_messages, caller,
                   serverVars, extractVars, queryVars,
                   sub>>

\* ApiReset with the stored context left in place
ApiResetKeepingContext ==
    /\ ops < MaxChats
    /\ ResetSession
    /\ current_query' = None
    /\ current_tools' = None
    /\ conversation_messages' = <<>>
    /\ UNCHANGED <<current_context, chat_messages, chat_response, caller,
                   callers, serverVars, extractVars, queryVars,
                   sub>>

\* RLMToolCallingAPI.reset (rlm_api.py 251-261), called between requests
ApiReset ==
    /\ ops < MaxChats
    /\ ResetSession
    /\ current_context' = None
    /\ current_query' = None
    /\ current_tools' = None
    /\ conversation_messages' = <<>>
    /\ UNCHANGED <<chat_messages, chat_response, caller, callers,
                   serverVars, extractVars, queryVars,
                   sub>>

\* what the driving model sends back in the runs through the API: a failure,
\* text with and without a final answer, a fence, one and two tool calls
ApiResponses ==
    {Raw(TRUE, <<>>, "none", FALSE),
     Raw(FALSE, <<>>, "none", FALSE),
     Raw(FALSE, <<>>, "none", TRUE),
     Raw(FALSE, <<>>, "ok", FALSE),
     Raw(FALSE, <<"t1">>, "none", FALSE),
     Raw(FALSE, <<"t1", "t2">>, "none", FALSE)}

\* the requests of the callers and the steps of the completion they started
NextAPI ==
    \/ \E c \in Callers, tools \in ToolSchemas :
          \E msgs \in Conversations(c) :
             CallerOpens(c, msgs, tools) /\ UNCHANGED http
    \/ \E c \in Callers, tools \in ToolSchemas :
          CallerContinues(c, tools) /\ UNCHANGED http
    \/ ApiReset
    \/ \E raw \in ApiResponses : Iterate(raw) /\ ChatReturn
    \/ FinalizeUnbound /\ ChatReturn
    \/ \E raw \in FinalResponses : Finalize(raw) /\ ChatReturn

SpecAPI == Init /\ [][NextAPI]_vars

\* ================================================ create_chat_completion
\* no request was answered yet, or one is being served
NoHTTP == [status |-> "none", detail |-> None, raised |-> None]

\* HTTPAnswer with a handler that catches RuntimeError only: any other
\* exception leaves the handler
HTTPAnswerRuntimeOnly(raised) ==
    IF raised = None THEN [status |-> "200", detail |-> None, raised |-> None]
    ELSE IF raised = "RuntimeError"
    THEN [status |-> "500", detail |-> raised, raised |-> raised]
    ELSE [status |-> "escaped", detail |-> None, raised |-> raised]

\* how create_chat_completion ends (rlm_server.py 195, 275-282): it returns
\* the converted response, or, for any Exception raised in its body, raises
\* HTTPException(status_code=500, detail=str(e))
HTTPAnswer(raised) ==
    IF raised = None THEN [status |-> "200", detail |-> None, raised |-> None]
    ELSE [status |-> "500", detail |-> raised, raised |-> raised]

\* get_rlm_client raises while it creates the client of a model that has
\* none: OpenAIClient finds no API key (rlm_server.py 119-126, llm.py 14-16)
HandlerClientFails(c) ==
    /\ pc = "idle"
    /\ callers[c].status = "new"
    /\ cache_key(RequestedModel(c)) \notin CachedKeys
    /\ http' = HTTPAnswer("ValueError")
    /\ caller' = c
    /\ callers' = [callers EXCEPT ![c].status = "done"]
    /\ UNCHANGED <<max_iterations, messages, repl_env, query, envCount, pc,
                   arg_query, arg_tools, tool_results, iteration, result,
                   lastRequest, response, reqCall, reqSession, reqTotal,
                   session, setups, batch, ops, current_context, current_query,
                   current_tools, conversation_messages, chat_messages,
                   chat_response, rlm_clients, client, extractVars, queryVars,
                   sub>>

\* the end of create_chat_completion, when the step just taken ended
\* completion: chat_completion returns or raises, the response is converted
\* (rlm_server.py 228-273), which the Message and ChatCompletionResponse
\* models may refuse, and the caller gets the answer
HandlerReturn(conversion_fails) ==
    /\ chat_response' =
          IF pc' # "idle" THEN NoChatResponse
          ELSE IF result'.type = "error" THEN ChatRaised
          ELSE FormatResponse(result')
    /\ http' =
          IF pc' # "idle" THEN NoHTTP
          ELSE HTTPAnswer(IF result'.type = "error" THEN result'.error
                          ELSE IF conversion_fails THEN "ValidationError"
                          ELSE None)
    /\ callers' =
          IF pc' # "idle" THEN callers
          ELSE [callers EXCEPT ![caller] =
                   AfterResponse(@, IF http'.status = "200" THEN chat_response'
                                    ELSE ChatRaised)]
    /\ UNCHANGED <<current_context, current_query, current_tools,
                   conversation_messages, chat_messages, caller,
                   rlm_clients, client, extractVars, queryVars,
                   sub>>

\* the requests the server handles and the steps of the completion they
\* started
NextHTTP ==
    \/ \E c \in Callers, tools \in ToolSchemas :
          \E msgs \in Conversations(c) :
             CallerOpens(c, msgs, tools) /\ http' = NoHTTP
    \/ \E c \in Callers, tools \in ToolSchemas :
          CallerContinues(c, tools) /\ http' = NoHTTP
    \/ \E c \in Callers : HandlerClientFails(c)
    \/ \E raw \in ApiResponses, conversion_fails \in BOOLEAN :
          Iterate(raw) /\ HandlerReturn(conversion_fails)
    \/ \E conversion_fails \in BOOLEAN :
          FinalizeUnbound /\ HandlerReturn(conversion_fails)
    \/ \E raw \in FinalResponses, conversion_fails \in BOOLEAN :
          Finalize(raw) /\ HandlerReturn(conversion_fails)

SpecHTTP == Init /\ [][NextHTTP]_vars

\* ============================================================ the server
\* the requests reaching rlm_server.create_chat_completion, for what they do
\* to the client cache: each names a model and get_rlm_client finds or
\* creates its client
NextServer ==
    \E model \in ModelNames :
        /\ get_rlm_client(model)
        /\ UNCHANGED <<max_iterations, messages, repl_env, query, envCount, pc,
                       arg_query, arg_tools, tool_results, iteration, result,
                       lastRequest, response, reqCall, reqSession, reqTotal,
                       session, setups, batch, ops, apiVars, extractVars,
                       queryVars, http, sub>>

SpecServer == Init /\ [][NextServer]_vars

\* ===================================================== _extract_context
\* the messages _extract_context is applied to on its own: system, user and
\* assistant messages of two contents
ExtractRoles == {"system", "user", "assistant"}
ExtractContents == {"x", "y"}
ExtractMsgs == {CallerMsg(role, content, <<>>) :
                   role \in ExtractRoles, content \in ExtractContents}

\* the message lists of n messages
RECURSIVE MessageLists(_)
MessageLists(n) ==
    IF n = 0 THEN {<<>>}
    ELSE {Append(msgs, m) : msgs \in MessageLists(n - 1), m \in ExtractMsgs}

\* RLMToolCallingAPI._extract_context(messages) called with a message list
ExtractContext(msgs) ==
    /\ extract_messages' = msgs
    /\ extracted' =
           [done |-> TRUE, type |-> context_type(msgs),
            str  |-> IF context_type(msgs) = "str"
                     THEN extract_context(msgs) ELSE None,
            strs |-> IF context_type(msgs) = "list of str"
                     THEN extract_context(msgs) ELSE <<>>,
            msgs |-> IF context_type(msgs) = "list of messages"
                     THEN extract_context(msgs) ELSE <<>>]
    /\ UNCHANGED <<max_iterations, messages, repl_env, query, envCount, pc,
                   arg_query, arg_tools, tool_results, iteration, result,
                   lastRequest, response, reqCall, reqSession, reqTotal,
                   session, setups, batch, ops, apiVars, serverVars, queryVars,
                   sub>>

NextExtract ==
    \E n \in 0..MaxMsgs : \E msgs \in MessageLists(n) : ExtractContext(msgs)

SpecExtract == Init /\ [][NextExtract]_vars

\* ======================================================== _extract_query
\* RLMToolCallingAPI._extract_query(messages) called with a message list
ExtractQuery(msgs) ==
    /\ query_messages' = msgs
    /\ extracted_query' = [done |-> TRUE, value |-> extract_query(msgs)]
    /\ UNCHANGED <<max_iterations, messages, repl_env, query, envCount, pc,
                   arg_query, arg_tools, tool_results, iteration, result,
                   lastRequest, response, reqCall, reqSession, reqTotal,
                   session, setups, batch, ops, apiVars, serverVars, extractVars,
                   sub>>

NextQuery ==
    \E n \in 0..MaxMsgs : \E msgs \in MessageLists(n) : ExtractQuery(msgs)

SpecQuery == Init /\ [][NextQuery]_vars

\* ================================================================ claims

\* the running or last call was entered with tool_results
Resumed == tool_results.given
\* ... while the caller held a paused result
ResumedAfterPause == Resumed /\ batch.type = "tool_calls"
\* ... and the supplied entries answer its tool calls one to one
ResumedMatching == ResumedAfterPause /\ Matches(tool_results.entries, batch.tool_calls)
\* a step that issues a Model Client request
RequestStep == reqCall' = reqCall + 1
\* the last message of the Conversation
LastMessage == messages[Len(messages)]

\* C1: over a whole session (the first call and every resume of it) at most
\* max_iterations + 1 Model Client requests are issued.  Counted while the
\* running or last call is the session's first call or a resume that answers
\* the pending batch one to one.
C1_SessionRequestsWithinBudget ==
    (session /\ (Resumed => ResumedMatching)) => reqSession <= max_iterations + 1

\* C2: a response carrying both tool calls and a code fence pauses the call
\* (type 'tool_calls') and the Execution Environment is not touched in that
\* turn.
C2_ToolCallsBeforeCode ==
    [][(RequestStep /\ ~lastRequest'.final /\ ~response'.fail
        /\ has_tool_calls(response') /\ has_code_blocks(response'))
       => /\ result'.type = "tool_calls"
          /\ result'.tool_calls = response'.tool_calls
          /\ pc' = "idle"
          /\ repl_env' = repl_env
          /\ messages' = Append(messages, format_tool_call_message(response'))]_vars

C2_Witness ==
    /\ result.type = "tool_calls"
    /\ has_code_blocks(response)
    /\ has_tool_calls(response)
    /\ repl_env # NoneEnv

\* C3: after a pause with k tool calls, a resume goes on if and only if the
\* supplied entries match the pending identifiers one to one; otherwise it
\* raises a ProtocolError, before any Model Client request.
C3_ResumeIffMatching ==
    ResumedAfterPause =>
        IF ResumedMatching
        THEN ~(result.type = "error" /\ result.error = "ProtocolError")
        ELSE /\ reqCall = 0
             /\ pc = "idle" => (result.type = "error" /\ result.error = "ProtocolError")

\* C4: a call with tool_results made while no paused result is outstanding
\* (no session, a finished one, a reset one) is rejected with an error and
\* issues no Model Client request.
C4_ResumeWithoutBatchRejected ==
    (Resumed /\ ~ResumedAfterPause) =>
        /\ reqCall = 0
        /\ pc = "idle" => result.type = "error"

\* C5: a resume after a pause goes on with the same session: the resume
\* appends the supplied entries to the Conversation as it stood at the pause
\* and leaves the Execution Environment, the recorded query and the number of
\* setup_context runs alone; the first request after it carries that
\* Conversation; and no step of the resumed call normalizes the context again.
C5_ResumeContinuesSession ==
    [][/\ (pc = "idle" /\ pc' = "loop" /\ Resumed' /\ Pending.type = "tool_calls")
          => /\ messages' = messages \o ToolResultMsgs(tool_results'.entries)
             /\ repl_env' = repl_env
             /\ query' = query
       /\ (pc = "loop" /\ ResumedAfterPause /\ reqCall = 0 /\ RequestStep)
          => /\ lastRequest'.messages =
                   Append(messages, next_action_prompt(arg_query, 0, FALSE))
             /\ messages[1] = build_system_prompt[1]
       /\ (ResumedAfterPause' /\ (pc = "loop" \/ pc' = "loop"))
          => /\ setups' = setups
             /\ envCount' = envCount
             /\ repl_env'.id = repl_env.id
             /\ repl_env'.context = repl_env.context]_vars

C5_Witness ==
    /\ ResumedMatching
    /\ reqCall = 1
    /\ setups = 1
    /\ Len(lastRequest.messages) >= 4
    /\ lastRequest.messages[1] = build_system_prompt[1]
    /\ lastRequest.messages[Len(lastRequest.messages) - 1].role = "tool"

\* C6: the iteration counter stays below max_iterations and never decreases
\* over the session: after a pause at iteration i the resumed loop does not
\* count from zero again.
C6_IterationCounterMonotone ==
    /\ iteration < max_iterations \/ iteration = Unbound
    /\ (ResumedMatching /\ iteration # Unbound) => iteration >= batch.iteration

\* C7: while a Pending Tool-Call Batch is unresolved, no Model Client request
\* is issued for the session until matching tool results have been supplied.
C7_NoRequestWhileBatchUnresolved ==
    [][(RequestStep /\ ResumedAfterPause) => ResumedMatching]_vars

\* C8: a fence that fails when executed is never raised to the caller: the
\* turn appends an observation and the call goes on (or returns the final
\* answer found in that turn); after failing code in every iteration the
\* forced finalization still returns an answer unless the Model Client fails.
C8_ExecutionErrorRecovered ==
    /\ [][(RequestStep /\ ~lastRequest'.final /\ ~response'.fail
           /\ ~has_tool_calls(response') /\ response'.code = "raises")
          => /\ messages' = Append(messages, observation("raises"))
             /\ result'.type # "error"
             /\ pc' = "loop" \/ result'.type = "answer"]_vars
    /\ []((/\ pc = "idle" /\ lastRequest.final /\ ~response.fail
           /\ \A i \in 1..max_iterations :
                 messages[Len(messages) - i].kind = "observation_error")
          => result.type = "answer")

C8_Witness ==
    /\ pc = "idle"
    /\ max_iterations = MaxIter
    /\ ~Resumed
    /\ lastRequest.final
    /\ result.type = "answer"
    /\ Len(messages) = max_iterations + 2
    /\ \A i \in 1..max_iterations :
          messages[Len(messages) - i].kind = "observation_error"

\* a call has ended whose loop returned neither a final answer nor a pause
LoopFellThrough ==
    pc = "idle" /\ result.type # "none" /\ (lastRequest.final \/ max_iterations = 0)

\* C9: for every max_iterations >= 0, a call whose loop returned nothing
\* issues exactly one more Model Client request and returns its text; it
\* raises only if that request fails.
C9_BudgetExhaustionNeverAborts ==
    LoopFellThrough =>
        /\ lastRequest.final
        /\ reqCall = max_iterations + 1
        /\ result.type = "answer" \/ response.fail

\* C10: the request of the forced finalization carries no tool schema, its
\* answer is returned unclassified (no pause, no execution) and ends the call:
\* a call that exhausts its budget never returns a paused result.
C10_FinalRequestUnclassified ==
    /\ [](lastRequest.final =>
            /\ lastRequest.tools = None
            /\ pc = "idle"
            /\ result.type \in {"answer", "error"}
            /\ result.type = "error" <=> response.fail
            /\ ~has_tool_calls(response)
            /\ reqCall = max_iterations + 1)
    /\ [][(RequestStep /\ lastRequest'.final)
          => /\ repl_env' = repl_env
             /\ messages' = Append(messages,
                                   next_action_prompt(arg_query, iteration, TRUE))
             /\ lastRequest'.messages = messages']_vars

C10_Witness ==
    /\ lastRequest.final
    /\ arg_tools # None
    /\ result.type = "answer"
    /\ has_code_blocks(response)
    /\ check_for_final_answer(response)

\* C11: a failed Model Client request is not retried: the call ends at once
\* with the error propagated to the caller, the Conversation and the
\* Execution Environment are left as they were, and no further request is
\* issued in that call.
C11_FailureNotRetried ==
    /\ [](response.fail => /\ pc = "idle"
                           /\ result.type = "error"
                           /\ result.error = "RuntimeError")
    /\ [][/\ (RequestStep /\ response'.fail /\ ~lastRequest'.final)
             => (messages' = messages /\ repl_env' = repl_env)
          /\ RequestStep => ~response.fail]_vars

C11_Witness ==
    /\ response.fail
    /\ ~lastRequest.final
    /\ reqCall = 2
    /\ result.type = "error"

\* C13: every new session (a call without tool_results) gets an Execution
\* Environment constructed in that call: an object no earlier session held,
\* in whose namespace nothing has run, also when the earlier session ran on
\* the same RLM_REPL object.
C13_FreshEnvironmentPerSession ==
    /\ [](repl_env.id <= envCount)
    /\ [][(setups' = setups + 1 /\ ~Resumed')
          => /\ repl_env'.id > envCount
             /\ envCount' = repl_env'.id
             /\ repl_env'.execs = 0
             /\ repl_env' # repl_env]_vars

\* the second session on one object has begun, after a session that issued
\* requests, and nothing has run in its environment
C13_Witness ==
    /\ setups = 2
    /\ ~Resumed
    /\ pc = "loop"
    /\ reqCall = 0
    /\ reqTotal >= 1
    /\ repl_env.id = 2
    /\ repl_env.execs = 0

\* C16: a call made without tools (tools is None) never returns a Paused
\* result: no request of it carries a tool schema, no response of it carries
\* tool calls, and whatever it returns is a final answer.
C16_NoToolsNeverPaused ==
    /\ []((arg_tools = None /\ pc = "idle" /\ result.type # "error")
          => result.type \in {"none", "answer"})
    /\ [][(RequestStep /\ arg_tools = None)
          => /\ lastRequest'.tools = None
             /\ ~has_tool_calls(response')
             /\ result'.type # "tool_calls"]_vars

\* a call without tools returned the final answer of its second pass
C16_Witness ==
    /\ arg_tools = None
    /\ setups = 1
    /\ pc = "idle"
    /\ reqCall = 2
    /\ ~lastRequest.final
    /\ result.type = "answer"

\* C20: in a pass whose response has no tool calls, the final-answer check
\* comes after the turn was recorded (the fences executed in the session's
\* environment and their observation appended, or the plain assistant turn
\* appended); a final
\* answer found there ends the call at once, and the call issues no further
\* request, the forced finalization included.
C20_FinalAnswerReturnsAtOnce ==
    /\ [][(RequestStep /\ ~lastRequest'.final /\ ~response'.fail
           /\ ~has_tool_calls(response') /\ check_for_final_answer(response'))
          => /\ pc' = "idle"
             /\ result' = FinalAnswer
             /\ IF has_code_blocks(response')
                THEN /\ messages' = Append(messages, observation(response'.code))
                     /\ repl_env # NoneEnv => repl_env'.execs = repl_env.execs + 1
                ELSE /\ messages' = Append(messages, assistant_message)
                     /\ repl_env' = repl_env]_vars
    /\ []((result.type = "answer" /\ ~lastRequest.final)
          => /\ pc = "idle"
             /\ check_for_final_answer(response)
             /\ reqCall = iteration + 1
             /\ reqCall <= max_iterations)
    /\ [][(RequestStep /\ lastRequest'.final) => ~check_for_final_answer(response)]_vars

\* the first pass of a call of budget MaxIter ran a fence and found the
\* final answer: the call ended with one request issued
C20_Witness ==
    /\ max_iterations = MaxIter
    /\ pc = "idle"
    /\ result.type = "answer"
    /\ reqCall = 1
    /\ has_code_blocks(response)
    /\ repl_env.execs = 1
    /\ LastMessage.kind = "observation"

\* C18: every call of completion terminates: a call that was entered
\* eventually ends, in exactly one of a final answer, a Paused result or a
\* propagated error, after at most max_iterations passes of the loop and at
\* most one finalization request.
C18_CallTerminates ==
    /\ (pc = "loop") ~> (pc = "idle" /\ result.type \in {"answer", "tool_calls", "error"})
    /\ [][/\ reqCall' <= max_iterations + 1
          /\ (RequestStep /\ ~lastRequest'.final)
             => (iteration' = reqCall /\ iteration' < max_iterations)
          /\ (RequestStep /\ lastRequest'.final)
             => (~lastRequest.final /\ pc' = "idle")
          /\ (pc = "loop" /\ pc' = "loop") => reqCall' = reqCall + 1
          /\ (pc = "loop" /\ pc' = "idle")
             => result'.type \in {"answer", "tool_calls", "error"}]_vars

\* a call of budget MaxIter ended after MaxIter passes and the finalization
C18_Witness ==
    /\ max_iterations = MaxIter
    /\ pc = "idle"
    /\ reqCall = MaxIter + 1
    /\ lastRequest.final
    /\ result.type = "answer"

\* the number of observations of executed fences in a Conversation
RECURSIVE NumObservations(_)
NumObservations(msgs) ==
    IF msgs = <<>> THEN 0
    ELSE (IF Head(msgs).kind \in {"observation", "observation_error"} THEN 1 ELSE 0)
         + NumObservations(Tail(msgs))

\* C19: execution within a session is strictly sequential: a request is
\* issued only by the one running call and is answered in the same step, so
\* none is in flight when the next one is issued; and the fences of every
\* earlier response have run to their end before it: each request carries
\* the Conversation with the observation of every executed fence, as many as
\* the session's environment has run.
C19_StrictlySequential ==
    /\ [](repl_env # NoneEnv => repl_env.execs = NumObservations(messages))
    /\ [][RequestStep
          => /\ pc = "loop"
             /\ reqCall' = reqCall + 1 /\ reqTotal' = reqTotal + 1
             /\ response'.fail \/ Len(messages') = Len(messages) + 1
             /\ SubSeq(lastRequest'.messages, 1, Len(messages)) = messages
             /\ repl_env # NoneEnv
                => NumObservations(lastRequest'.messages) = repl_env.execs]_vars

\* the second request of a call was issued after the fence of the first
\* response ran: it carries that fence's observation
C19_Witness ==
    /\ reqCall = 2
    /\ repl_env.execs >= 1
    /\ Len(lastRequest.messages) >= 3
    /\ lastRequest.messages[Len(lastRequest.messages) - 1].kind = "observation"

\* C17: chat_completion returns finish_reason 'tool_calls', with the tool
\* calls of the paused result, exactly when the completion call it made
\* paused; whenever it returns otherwise, it returns finish_reason 'stop'
\* with the final answer as content and no tool calls (a completion that
\* raised makes chat_completion raise).
C17_FinishReasonFollowsResult ==
    (pc = "idle" /\ caller # None /\ result # NoResult) =>
        /\ chat_response.finish_reason = "tool_calls" <=> result.type = "tool_calls"
        /\ chat_response.finish_reason = "stop" <=> result.type = "answer"
        /\ result.type = "tool_calls"
           => /\ chat_response.tool_calls = result.tool_calls
              /\ chat_response.tool_calls # <<>>
        /\ result.type = "answer"
           => /\ chat_response.content = "answer"
              /\ chat_response.tool_calls = <<>>

\* a chat_completion returned the two tool calls of a paused completion
C17_Witness ==
    /\ pc = "idle"
    /\ result.type = "tool_calls"
    /\ chat_response.finish_reason = "tool_calls"
    /\ chat_response.tool_calls = <<"t1", "t2">>
    /\ callers[caller].status = "paused"

\* a step that runs reset(): an Execution Environment is constructed and no
\* session is set up
ResetStep == envCount' = envCount + 1 /\ setups' = setups
\* reset() has not been called so far: every Execution Environment was
\* constructed by a session start
NeverReset == envCount = setups
\* a step that enters chat_completion
ChatStep == ops' = ops + 1 /\ pc' = "loop"
\* the messages handed to the running or last chat_completion hold a
\* tool-role entry
HasToolRole(msgs) == \E i \in 1..Len(msgs) : msgs[i].role = "tool"
\* a message that caller B wrote
FromB(m) == m.kind = "caller" /\ Content(m) \in {"ctxB", "hB", "qB"}

\* C12: when caller A resumes with its tool results after its request
\* paused, the resume runs on A's own Conversation, context, query and
\* Execution Environment, whatever caller B, naming the same model, sent to
\* the server in between: nothing of B's has replaced or entered them.
C12_SessionsNotShared ==
    (caller = "A" /\ Resumed /\ NeverReset) =>
        /\ current_context = "ctxA"
        /\ current_query = "qA"
        /\ query = "qA"
        /\ repl_env.context = "ctxA"
        /\ \A i \in 1..Len(messages) : ~FromB(messages[i])

\* the tool-result entries of a Conversation
RECURSIVE NumToolResults(_)
NumToolResults(msgs) ==
    IF msgs = <<>> THEN 0
    ELSE (IF Head(msgs).role = "tool" THEN 1 ELSE 0) + NumToolResults(Tail(msgs))

\* the tool calls the assistant messages of a Conversation ask for
RECURSIVE NumToolCalls(_)
NumToolCalls(msgs) ==
    IF msgs = <<>> THEN 0
    ELSE (IF Head(msgs).kind = "tool_calls" THEN Len(Head(msgs).ids) ELSE 0)
         + NumToolCalls(Tail(msgs))

\* C14: over a session driven through chat_completion by one caller that
\* sends its whole history each round, every tool-result entry is appended
\* to the Conversation exactly once: the Conversation holds one entry per
\* tool call asked for, those of the batch still pending left aside.
C14_ToolResultsAppendedOnce ==
    (caller = "A" /\ callers["B"].status = "new" /\ NeverReset) =>
        NumToolResults(messages) =
            NumToolCalls(messages)
            - (IF result.type = "tool_calls" THEN Len(result.tool_calls) ELSE 0)

\* C15: a chat_completion whose messages hold no tool-role entry starts a
\* new session: context, query and tools are taken from the call and the
\* Conversation is built anew, whatever calls were made (and returned)
\* before on the object.
C15_NoToolRoleStartsSession ==
    [][(ChatStep /\ result.type # "error" /\ ~HasToolRole(chat_messages'))
       => /\ ~Resumed'
          /\ setups' = setups + 1
          /\ messages' = build_system_prompt
          /\ current_context' = extract_context(chat_messages')
          /\ current_query' = extract_query(chat_messages')
          /\ current_tools' = callers'[caller'].tools
          /\ conversation_messages' = chat_messages']_vars

\* a step that enters completion with tool_results
ResumeStep == ops' = ops + 1 /\ Resumed'

\* C21: a resume whose tool results do not match the Pending Tool-Call
\* Batch is rejected and leaves the session as it was: the Conversation is
\* not extended with the entries, the call does not run (no Model Client
\* request can follow) and the batch stays outstanding.
C21_RejectedResumeLeavesSession ==
    [][(ResumeStep /\ Pending.type = "tool_calls"
        /\ ~Matches(tool_results'.entries, Pending.tool_calls))
       => /\ messages' = messages
          /\ pc' = "idle"
          /\ reqTotal' = reqTotal]_vars

\* the key the claim's reading resolves a model name to: 'a:b' to base a and
\* recursive b; a name without ':' to itself with recursive 'gpt-4o' when it
\* contains 'nano' or 'mini', and with itself otherwise
ResolvedKey(model) ==
    IF Len(model) = 3 THEN <<model[1], ":", model[3]>>
    ELSE IF model[1] \in SmallParts THEN <<model[1], ":", "gpt-4o">>
    ELSE <<model[1], ":", model[1]>>

\* C29: get_rlm_client is idempotent per resolved model pair: the cache
\* holds at most one client per key and one key per client, the call returns
\* the client kept under the key its model name resolves to, and an entry
\* once created is never replaced or removed.
C29_ClientCacheIdempotent ==
    /\ [](\A e, f \in rlm_clients : (e.key = f.key \/ e.id = f.id) => e = f)
    /\ [](client.id # 0
            => /\ cache_key(client.model) = ResolvedKey(client.model)
               /\ [key |-> ResolvedKey(client.model), id |-> client.id] \in rlm_clients)
    /\ [][rlm_clients \subseteq rlm_clients']_vars

\* with MaxClients clients in the cache, a request naming "gpt-5-mini" was
\* handed the client created first
C29_Witness ==
    /\ Cardinality(rlm_clients) = MaxClients
    /\ client.model = <<"gpt-5-mini">>
    /\ client.id = 1
    /\ [key |-> <<"gpt-5-mini", ":", "gpt-4o">>, id |-> 1] \in rlm_clients

\* the position of the last user message of a list, 0 if it has none
LastUser(msgs) ==
    IF \E i \in 1..Len(msgs) : IsUser(msgs[i])
    THEN CHOOSE i \in 1..Len(msgs) :
            IsUser(msgs[i]) /\ \A j \in (i + 1)..Len(msgs) : ~IsUser(msgs[j])
    ELSE 0

\* all messages except the last user message
AllButLastUser(msgs) ==
    IF LastUser(msgs) = 0 THEN msgs
    ELSE SubSeq(msgs, 1, LastUser(msgs) - 1)
         \o SubSeq(msgs, LastUser(msgs) + 1, Len(msgs))

\* C30: _extract_context returns the content of the single system message
\* when there is exactly one, the list of all system contents in order when
\* there are several, otherwise, for more than one message, all messages
\* except the last user message, and the empty string for a single
\* non-system message or an empty list.
C30_ExtractContextValue ==
    extracted.done =>
        LET msgs == extract_messages
            systems == SelectSeq(msgs, IsSystem)
        IN IF Len(systems) = 1
           THEN extracted.type = "str" /\ extracted.str = Content(systems[1])
           ELSE IF Len(systems) > 1
           THEN /\ extracted.type = "list of str"
                /\ Len(extracted.strs) = Len(systems)
                /\ \A i \in 1..Len(systems) :
                       extracted.strs[i] = Content(systems[i])
           ELSE IF Len(msgs) > 1
           THEN /\ extracted.type = "list of messages"
                /\ extracted.msgs = AllButLastUser(msgs)
           ELSE extracted.type = "str" /\ extracted.str = ""

\* C22: after RLMToolCallingAPI.reset() the session is gone: the stored
\* context, query and tools are None, the stored caller messages and the
\* Conversation are empty, the Execution Environment is a fresh one, and the
\* next chat_completion without tool-role messages starts a new session
\* whatever the number of messages it carries.
C22_ApiResetEndsSession ==
    /\ [][ResetStep
          => /\ current_context' = None
             /\ current_query' = None
             /\ current_tools' = None
             /\ conversation_messages' = <<>>
             /\ messages' = <<>>
             /\ repl_env' = REPLEnv(envCount + 1, None)
             /\ repl_env'.id > repl_env.id]_vars
    /\ [][(ChatStep /\ current_context = None /\ conversation_messages = <<>>
           /\ ~HasToolRole(chat_messages'))
          => /\ ~Resumed'
             /\ setups' = setups + 1
             /\ messages' = build_system_prompt
             /\ current_context' = extract_context(chat_messages')
             /\ current_query' = extract_query(chat_messages')
             /\ conversation_messages' = chat_messages']_vars

\* after a session of caller A and a reset, caller B's request of three
\* messages has begun a new session
C22_Witness ==
    /\ envCount = 3
    /\ setups = 2
    /\ caller = "B"
    /\ Len(chat_messages) = 3
    /\ ~Resumed
    /\ pc = "loop"
    /\ current_context = "ctxB"
    /\ repl_env.id = 3

\* C23: on a pause exactly one message, the assistant message recording the
\* model's tool calls, is appended to the Conversation, the tool calls
\* returned to the caller are the ones the model produced with their
\* identifiers unchanged, and nothing else of the session changes in that
\* turn: no observation message, no Execution Environment change.
C23_PauseAppendsOneMessage ==
    [][(RequestStep /\ result'.type = "tool_calls")
       => /\ Len(messages') = Len(messages) + 1
          /\ SubSeq(messages', 1, Len(messages)) = messages
          /\ LastMessage' = format_tool_call_message(response')
          /\ LastMessage'.role = "assistant"
          /\ LastMessage'.ids = response'.tool_calls
          /\ result'.tool_calls = response'.tool_calls
          /\ repl_env' = repl_env
          /\ envCount' = envCount
          /\ query' = query
          /\ session' = session
          /\ setups' = setups
          /\ max_iterations' = max_iterations]_vars

\* a call paused on two tool calls at its second pass, after a pass that ran
\* code in the Execution Environment
C23_Witness ==
    /\ pc = "idle"
    /\ result.type = "tool_calls"
    /\ result.tool_calls = <<"t1", "t2">>
    /\ result.iteration = 1
    /\ LastMessage.kind = "tool_calls"
    /\ LastMessage.ids = <<"t1", "t2">>
    /\ repl_env.execs = 1

\* a sequence is an initial part of another
IsPrefix(s, t) == Len(s) <= Len(t) /\ SubSeq(t, 1, Len(s)) = s

\* C24: the Conversation is append-only during a session: across every step
\* of completion other than session start and reset (model request, pause,
\* code observation, plain assistant turn, resume, forced finalization) the
\* Conversation before the step is a prefix of the Conversation after it.
C24_ConversationAppendOnly ==
    [][(setups' = setups /\ ~ResetStep) => IsPrefix(messages, messages')]_vars

\* a resumed call has run code, taken a plain turn and been finalized: the
\* Conversation holds the tool-call message, the tool result, the
\* observation, the assistant turn and the final instruction
C24_Witness ==
    /\ Resumed
    /\ pc = "idle"
    /\ lastRequest.final
    /\ result.type = "answer"
    /\ NumToolResults(messages) = 1
    /\ NumObservations(messages) = 1
    /\ LastMessage.kind = "final_prompt"
    /\ Len(messages) >= 6

\* a step that issues a request of the loop
LoopRequestStep == RequestStep /\ ~lastRequest'.final

\* C25: each request of the loop carries the full current Conversation
\* followed by one instruction numbered with the current iteration, plus the
\* tool schema of the call; issuing the request does not change the
\* Conversation, so the per-iteration instruction is never stored in it.
C25_RequestCarriesConversation ==
    /\ [][LoopRequestStep
          => LET req == lastRequest'.messages
             IN /\ Len(req) = Len(messages) + 1
                /\ SubSeq(req, 1, Len(messages)) = messages
                /\ req[Len(req)].role = "user"
                /\ req[Len(req)].kind = "next_action"
                /\ req[Len(req)].iteration = iteration'
                /\ iteration' = reqCall
                /\ lastRequest'.tools = arg_tools
                /\ IsPrefix(messages, messages')
                /\ Len(messages') <= Len(messages) + 1]_vars
    /\ [](\A i \in 1..Len(messages) : messages[i].kind # "next_action")

\* the second request of a call with tools was issued and answered: its
\* instruction is numbered 1 and the Conversation holds the turn, not the
\* instruction
C25_Witness ==
    /\ reqCall = 2
    /\ ~lastRequest.final
    /\ lastRequest.tools # None
    /\ LET req == lastRequest.messages
       IN /\ req[Len(req)].kind = "next_action"
          /\ req[Len(req)].iteration = 1
          /\ Len(messages) = Len(req)
          /\ SubSeq(messages, 1, Len(req) - 1) = SubSeq(req, 1, Len(req) - 1)
    /\ LastMessage.kind = "text"

\* C26: a continuation chat_completion call leaves the stored context, query
\* and tool schema of the session unchanged and resumes the Orchestrator
\* with exactly those stored values: the tools argument passed on the
\* continuation call has no effect on the requests issued after the resume.
C26_ContinuationKeepsStored ==
    /\ [][(ChatStep /\ Resumed')
          => /\ current_context' = current_context
             /\ current_query' = current_query
             /\ current_tools' = current_tools
             /\ arg_query' = current_query
             /\ arg_tools' = current_tools
             /\ repl_env' = repl_env
             /\ query' = query]_vars
    /\ [][(RequestStep /\ Resumed)
          => /\ lastRequest'.tools = (IF lastRequest'.final THEN None
                                      ELSE current_tools)
             /\ LET req == lastRequest'.messages
                IN req[Len(req)].query = current_query]_vars

\* a session begun with a tool schema was continued by a call that passed
\* no tools: the request after the resume carries the stored schema
C26_Witness ==
    /\ Resumed
    /\ caller # None
    /\ callers[caller].tools = None
    /\ current_tools = "tools"
    /\ reqCall = 1
    /\ ~lastRequest.final
    /\ lastRequest.tools = "tools"

\* C27: tool calls take priority over a final answer as well: when a
\* response contains tool calls together with a final-answer marker in its
\* text, completion returns a Paused result and the final-answer check is
\* not run in that turn, so the session is not marked done.
C27_ToolCallsBeforeFinalAnswer ==
    /\ [][(LoopRequestStep /\ ~response'.fail
           /\ has_tool_calls(response') /\ check_for_final_answer(response'))
          => /\ result' = Paused(response'.tool_calls, iteration')
             /\ result' # FinalAnswer
             /\ pc' = "idle"
             /\ LastMessage' = format_tool_call_message(response')
             /\ session' = session]_vars
    /\ []((result = FinalAnswer /\ ~lastRequest.final) => ~has_tool_calls(response))

\* a call paused on a response that also carried a final-answer marker
C27_Witness ==
    /\ pc = "idle"
    /\ ~lastRequest.final
    /\ has_tool_calls(response)
    /\ check_for_final_answer(response)
    /\ result.type = "tool_calls"
    /\ session

\* C28: the query named in every iteration instruction and in the
\* forced-finalization instruction equals the query recorded for the session
\* by setup_context; in particular when completion is called with query
\* omitted, the default query recorded for the session is the one used in
\* the instructions.
C28_InstructionNamesSessionQuery ==
    [][RequestStep
       => LET req == lastRequest'.messages
          IN /\ req[Len(req)].kind \in {"next_action", "final_prompt"}
             /\ req[Len(req)].query = query']_vars

\* C31: _extract_query returns the content of the last user-role message of
\* the list; when no message has the user role it returns the content of the
\* last message, and for an empty list the empty string.
C31_ExtractQueryValue ==
    extracted_query.done =>
        LET msgs == query_messages
        IN IF \E i \in 1..Len(msgs) : msgs[i].role = "user"
           THEN \E i \in 1..Len(msgs) :
                   /\ msgs[i].role = "user"
                   /\ \A j \in (i + 1)..Len(msgs) : msgs[j].role # "user"
                   /\ extracted_query.value = Content(msgs[i])
           ELSE IF Len(msgs) > 0
           THEN extracted_query.value = Content(msgs[Len(msgs)])
           ELSE extracted_query.value = ""

\* the query of a list whose last user message is neither its first user
\* message nor its last message
C31_Witness ==
    /\ extracted_query.done
    /\ Len(query_messages) = 3
    /\ query_messages[1].role = "user"
    /\ Content(query_messages[1]) = "x"
    /\ query_messages[2].role = "user"
    /\ Content(query_messages[2]) = "y"
    /\ query_messages[3].role = "assistant"
    /\ Content(query_messages[3]) = "x"
    /\ extracted_query.value = "y"

\* C32: the HTTP chat-completion handler never lets an exception escape:
\* every failure raised while serving a request (Model Client failure,
\* protocol misuse, response conversion) is answered with HTTP status 500
\* carrying the error text, and the request ends there.
C32_HandlerAnswersEveryFailure ==
    /\ [](http.status \in {"none", "200", "500"})
    /\ []((pc = "idle" /\ caller # None) => http.status \in {"200", "500"})
    /\ [](http.raised # None
            <=> (http.status = "500" /\ http.detail = http.raised))
    /\ []((pc = "idle" /\ result.type = "error")
            => (http.status = "500" /\ http.detail = result.error))
    /\ [](http.status = "500"
            => (pc = "idle" /\ callers[caller].status = "done"))
    /\ [][RequestStep => http.status = "none"]_vars

\* a continuation request was answered with status 500 after the Model
\* Client failed
C32_Witness ==
    /\ http.status = "500"
    /\ http.detail = "RuntimeError"
    /\ Resumed
    /\ response.fail
    /\ callers[caller].status = "done"

\* C33: a sub-query made from executed code is a leaf completion: it issues
\* one request to the recursive model with no tool schema, never starts a
\* nested driver loop, and never returns a pause to the caller, so each
\* sub-query invocation adds exactly one model call.
C33_SubQueryIsLeaf ==
    /\ [](/\ sub.requests = sub.queries
          /\ sub.loops = 0
          /\ sub.pauses = 0
          /\ sub.tools = None
          /\ sub.queries > 0 => sub.model = RecursiveModel)
    /\ [][(LoopRequestStep /\ sub'.queries > 0)
          => /\ result'.type # "tool_calls"
             /\ reqCall' = reqCall + 1
             /\ reqTotal' = reqTotal + 1
             /\ repl_env'.execs = repl_env.execs + 1]_vars

\* a fence of a call with tools and a budget of two made two sub-queries
C33_Witness ==
    /\ sub.queries = 2
    /\ sub.requests = 2
    /\ max_iterations = 2
    /\ arg_tools # None
    /\ has_code_blocks(response)
    /\ pc = "loop"

\* C34: the 'iteration' field of every Paused result is the zero-based index
\* of the loop iteration in which the tool calls were received: it lies in
\* 0..N-1 and equals the number of Model Client requests issued in that
\* completion call minus one.
C34_PausedIterationIndex ==
    /\ [](result.type = "tool_calls"
            => /\ result.iteration \in 0..(max_iterations - 1)
               /\ result.iteration = reqCall - 1
               /\ result.iteration = iteration)
    /\ [][(RequestStep /\ result'.type = "tool_calls")
          => result'.iteration = reqCall]_vars

\* a resumed call paused again at its second pass: the session has issued
\* three requests, the call two
C34_Witness ==
    /\ Resumed
    /\ result.type = "tool_calls"
    /\ result.iteration = 1
    /\ reqCall = 2
    /\ reqSession = 3
    /\ max_iterations = 2

====
